---- MODULE Spec2Model ----
(***************************************************************************)
(* Model of linkedin_api/utils/helpers.py and linkedin_api/model.py.       *)
(*                                                                         *)
(* Four specifications share the variables below:                          *)
(*   Spec        elements_to_linkedin_activity over a batch of raw records *)
(*   SpecDecode  get_timestamp_from_entity_urn over one entity urn         *)
(*   SpecFeed    get_list_posts_sorted_without_promoted over given lists   *)
(*   SpecParse   parse_list_raw_posts followed by the sort                 *)
(*                                                                         *)
(* Representation of Python values.                                        *)
(*   None          [k |-> "null"]                                          *)
(*   str           [k |-> "str", s |-> <<token, ...>>]  a token is a piece *)
(*                 of text [lit |-> "..."] or a run of decimal digits      *)
(*                 [num |-> n]; `x in s` is contiguous-subsequence search  *)
(*   dict          [k |-> "obj", f |-> a record]; a key is absent when it  *)
(*                 is not in DOMAIN f                                      *)
(*   list          [k |-> "list", l |-> <<v, ...>>]                        *)
(*   int           [k |-> "int", n |-> bits]                               *)
(*   unbounded int a sequence of bits, least significant first, without a  *)
(*                 leading zero (0 is <<>>): Python integers have no       *)
(*                 width, and activity ids exceed 32 bits                  *)
(***************************************************************************)
EXTENDS Integers, Sequences, FiniteSets, TLC

VARIABLES
    \* elements_to_linkedin_activity
    data,             \* the argument: the batch of raw records
    idx,              \* number of records the for loop has consumed
    actor_type,       \* function-level local, survives across iterations
    url,              \* function-level local, survives across iterations
    flags,            \* the four is_* locals, survive across iterations
    activities_list,  \* the list being built
    pc,               \* "loop", "returned", "raised", or "idle"
    exc,              \* the exception that left the function, or "none"
    \* get_timestamp_from_entity_urn
    entity_urn,       \* the argument
    decoded,          \* [err, ms] once called, Pending before
    \* parse_list_raw_posts / get_list_posts_sorted_without_promoted
    l_raw_posts,      \* argument of parse_list_raw_posts
    raw_idx,          \* raw posts consumed by its loop
    l_urns,           \* ordering list
    l_posts,          \* working list (mutated in place by the sort)
    l_posts_sorted_without_promoted,
    urn_idx,          \* urns consumed by the outer loop of the sort
    fpc,              \* "parse", "parse_raised", "filter", "sort", "returned", "raised", "idle"
    fexc,             \* the exception that left the function, or "none"
    l_posts_in,       \* history: l_posts as passed to the sort
    selected_by       \* history: for each output entry, the index in l_urns that selected it

vars == <<data, idx, actor_type, url, flags, activities_list, pc, exc,
          entity_urn, decoded,
          l_raw_posts, raw_idx, l_urns, l_posts, l_posts_sorted_without_promoted,
          urn_idx, fpc, fexc, l_posts_in, selected_by>>

activityVars == <<data, idx, actor_type, url, flags, activities_list, pc, exc>>
decodeVars == <<entity_urn, decoded>>
feedVars == <<l_raw_posts, raw_idx, l_urns, l_posts, l_posts_sorted_without_promoted,
              urn_idx, fpc, fexc, l_posts_in, selected_by>>

----------------------------------------------------------------------------
(* Python values *)

Null == [k |-> "null"]
Unbound == [k |-> "unbound"]
Str(s) == [k |-> "str", s |-> s]
Obj(f) == [k |-> "obj", f |-> f]
List(l) == [k |-> "list", l |-> l]
IntV(n) == [k |-> "int", n |-> n]
Lit(c) == [lit |-> c]
Digits(n) == [num |-> n]
Text(c) == Str(<<Lit(c)>>)
EmptyStr == Str(<<>>)

IsStr(v) == v.k = "str"

Ok(v) == [err |-> "none", val |-> v]
Err(e) == [err |-> e, val |-> Null]

\* sub in s, for two token sequences
Contains(s, sub) ==
    \E i \in 0..(Len(s) - Len(sub)) :
        \A j \in 1..Len(sub) : s[i + j] = sub[j]

\* v[key]: a dict raises KeyError for a missing key, None and every other
\* value raise TypeError for a string key; key "[0]" stands for index 0
Subscript(v, key) ==
    IF key = "[0]"
    THEN CASE v.k = "list" -> IF Len(v.l) > 0 THEN Ok(v.l[1]) ELSE Err("IndexError")
           [] v.k = "obj" -> Err("KeyError")
           [] OTHER -> Err("TypeError")
    ELSE CASE v.k = "obj" -> IF key \in DOMAIN v.f THEN Ok(v.f[key]) ELSE Err("KeyError")
           [] OTHER -> Err("TypeError")

\* v[p[1]][p[2]]...: the first exception ends the evaluation
RECURSIVE Path(_, _)
Path(v, p) ==
    IF p = <<>> THEN Ok(v)
    ELSE LET r == Subscript(v, Head(p))
         IN  IF r.err # "none" THEN r ELSE Path(r.val, Tail(p))

----------------------------------------------------------------------------
(* get_timestamp_from_entity_urn *)

Min(a, b) == IF a < b THEN a ELSE b

\* s[:k]
Slice(s, k) == SubSeq(s, 1, Min(k, Len(s)))

\* bin(n): "0b" followed by the bits, most significant first, no padding
Bin(n) ==
    <<"0", "b">> \o
    (IF n = <<>> THEN <<"0">>
     ELSE [i \in 1..Len(n) |-> IF n[Len(n) + 1 - i] = 1 THEN "1" ELSE "0"])

\* the integer 2*n + b
DoublePlus(n, b) == IF n = <<>> /\ b = 0 THEN <<>> ELSE <<b>> \o n

RECURSIVE ParseBits(_)
ParseBits(s) ==
    IF s = <<>> THEN <<>>
    ELSE DoublePlus(ParseBits(SubSeq(s, 1, Len(s) - 1)),
                    IF s[Len(s)] = "1" THEN 1 ELSE 0)

\* int(s, 2) for s starting with "0b"; ValueError without a digit
IntBase2(s) ==
    IF Len(s) <= 2 THEN [err |-> "ValueError", n |-> <<>>]
    ELSE [err |-> "none", n |-> ParseBits(SubSeq(s, 3, Len(s)))]

\* re.search("(urn:li:activity:\d+)", s): the digits of the leftmost match
ActivityPrefix == Lit("urn:li:activity:")

IsMatchAt(s, i) ==
    /\ i + 1 <= Len(s)
    /\ s[i] = ActivityPrefix
    /\ "num" \in DOMAIN s[i + 1]

ReSearch(s) ==
    IF \E i \in 1..Len(s) : IsMatchAt(s, i)
    THEN LET i == CHOOSE m \in 1..Len(s) :
                      IsMatchAt(s, m) /\ \A q \in 1..(m - 1) : ~IsMatchAt(s, q)
         IN  [found |-> TRUE, id |-> s[i + 1].num]
    ELSE [found |-> FALSE, id |-> <<>>]

First41End == 43

\* the slice taken without the two characters of the "0b" prefix
First41NoPrefix(post_id_binary) == Slice(post_id_binary, 41)

First41(post_id_binary) == Slice(post_id_binary, First41End)

NoMs == <<>>

get_timestamp_from_entity_urn(u) ==
    IF ~IsStr(u) THEN [err |-> "TypeError", ms |-> NoMs]
    ELSE LET m == ReSearch(u.s)
         IN  IF ~m.found THEN [err |-> "AttributeError", ms |-> NoMs]
             ELSE LET post_id_binary == Bin(m.id)
                      first_41 == First41(post_id_binary)
                      r == IntBase2(first_41)
                  IN  IF r.err # "none" THEN [err |-> r.err, ms |-> NoMs]
                      ELSE [err |-> "none", ms |-> r.n]

----------------------------------------------------------------------------
(* Inputs of the decoder: ids of every bit length up to MaxIdBits, in four *)
(* bit patterns, embedded in urns of three forms, and urns without an id.  *)

MaxIdBits == 45

IdPatterns == {"ones", "top", "alt", "ends"}

\* the id of bit length len with the given pattern (most significant bit 1)
MkId(len, p) ==
    [i \in 1..len |->
        IF i = len THEN 1
        ELSE CASE p = "ones" -> 1
               [] p = "top"  -> 0
               [] p = "alt"  -> IF (len - i) % 2 = 0 THEN 1 ELSE 0
               [] OTHER      -> IF i = 1 THEN 1 ELSE 0]

Ids == {MkId(len, p) : len \in 0..MaxIdBits, p \in IdPatterns}

UrnForms(n) ==
    { Str(<<ActivityPrefix, Digits(n)>>),
      Str(<<Lit("urn:li:fs_updateV2:("), ActivityPrefix, Digits(n), Lit(",FEED_DETAIL)")>>),
      Str(<<Lit("urn:li:activity:"), Lit("x"), ActivityPrefix, Digits(n),
            ActivityPrefix, Digits(<<1>>)>>) }

UrnsWithoutId ==
    { EmptyStr, Str(<<Lit("urn:li:fs_updateV2:(")>>), Str(<<ActivityPrefix>>),
      Str(<<Digits(<<1, 1>>)>>), Null }

Pending == [err |-> "pending", ms |-> NoMs]

----------------------------------------------------------------------------
(* elements_to_linkedin_activity: one iteration of the for loop *)

AllFalse == [is_liked |-> FALSE, is_reposted |-> FALSE,
             is_shared |-> FALSE, is_commented |-> FALSE]

\* the flags left as the previous iteration set them
FlagsCarriedOver(prev) == prev

\* line 253: the four flags at the start of an iteration, given their values
\* at the end of the previous one
FlagsAtLoopStart(prev) == AllFalse

\* for a in actions: the url of the first SHARE_VIA action; a failing
\* subscript ends the scan with an exception
RECURSIVE ScanActions(_)
ScanActions(l) ==
    IF l = <<>> THEN [res |-> "notfound", url |-> Null]
    ELSE LET t == Subscript(Head(l), "actionType")
         IN  IF t.err # "none" THEN [res |-> "error", url |-> Null]
             ELSE IF t.val = Str(<<Lit("SHARE_VIA")>>)
                  THEN LET u == Subscript(Head(l), "url")
                       IN  IF u.err # "none" THEN [res |-> "error", url |-> Null]
                           ELSE [res |-> "found", url |-> u.val]
                  ELSE ScanActions(Tail(l))

\* the two phrase tests in the opposite order
HeaderKindCommentFirst(header_text) ==
    IF Contains(header_text, <<Lit("commented on this")>>) THEN "commented"
    ELSE IF Contains(header_text, <<Lit("reposted this")>>) THEN "reposted"
    ELSE "liked"

\* lines 298-304: the branch taken for a header text
HeaderKind(header_text) ==
    IF Contains(header_text, <<Lit("reposted this")>>) THEN "reposted"
    ELSE IF Contains(header_text, <<Lit("commented on this")>>) THEN "commented"
    ELSE "liked"

\* lines 289-306: the flags after the reshare test and the header test
Classify(d, start) ==
    LET sR == Path(d, <<"resharedUpdate", "commentary", "text", "text">>)
        is_shared == IF sR.err = "none" THEN TRUE ELSE start.is_shared
        hR == Path(d, <<"header", "text", "text">>)
        \* `in` raises TypeError on None; the bare except passes
        hStr == ~is_shared /\ hR.err = "none" /\ IsStr(hR.val)
        kind == IF hStr THEN HeaderKind(hR.val.s) ELSE "none"
    IN  [is_shared    |-> is_shared,
         is_reposted  |-> IF kind = "reposted" THEN TRUE ELSE start.is_reposted,
         is_commented |-> IF kind = "commented" THEN TRUE ELSE start.is_commented,
         is_liked     |-> IF kind = "liked" THEN TRUE ELSE start.is_liked]

StrFields == {"actor_urn", "actor_type", "actor_name", "dash_entity_urn", "entity_urn",
              "url", "caption", "post_urn", "shared_caption", "comment"}

\* model.LinkedinActivity(...): a str field rejects None
Validates(a) == \A f \in StrFields : IsStr(a[f])

NoActivity == [k |-> "none"]

\* the body of the loop for record d, entered with the locals loc
\* (actor_type, url, flags); yields the locals after it, the exception that
\* left it ("none" when it appended), and the Activity
ProcessRecord(loc, d) ==
    LET start == FlagsAtLoopStart(loc.flags)
        \* lines 255-263
        aR == Path(d, <<"actor", "urn">>)
        aStr == aR.err = "none" /\ IsStr(aR.val)
        actor_urn_ == IF aStr THEN aR.val ELSE EmptyStr
        actor_type_ ==
            IF aStr /\ Contains(aR.val.s, <<Lit("company")>>) THEN Text("company")
            ELSE IF aStr /\ Contains(aR.val.s, <<Lit("member")>>) THEN Text("member")
            ELSE loc.actor_type
        \* lines 265-278
        nR == Path(d, <<"actor", "name", "text">>)
        actor_name_ == IF nR.err = "none" THEN nR.val ELSE EmptyStr
        dR == Subscript(d, "dashEntityUrn")
        dash_entity_urn_ == IF dR.err = "none" THEN dR.val ELSE EmptyStr
        eR == Subscript(d, "entityUrn")
        entity_urn_ == IF eR.err = "none" THEN eR.val ELSE EmptyStr
        \* lines 280-287
        actR == Path(d, <<"updateMetadata", "updateActions", "actions">>)
        scan == IF actR.err # "none" \/ actR.val.k # "list"
                THEN [res |-> "error", url |-> Null]
                ELSE ScanActions(actR.val.l)
        url_ == CASE scan.res = "found" -> scan.url
                  [] scan.res = "error" -> EmptyStr
                  [] OTHER -> loc.url
        \* lines 289-306
        sR == Path(d, <<"resharedUpdate", "commentary", "text", "text">>)
        shared_caption_ == IF sR.err = "none" THEN sR.val ELSE EmptyStr
        fl == Classify(d, start)
        \* lines 308-318
        hc == Path(d, <<"highlightedComments", "[0]">>)
        cT == IF hc.err = "none" THEN Path(hc.val, <<"commentV2", "text">>) ELSE hc
        cC == IF hc.err = "none" THEN Subscript(hc.val, "createdTime") ELSE hc
        comment_ == IF /\ fl.is_commented
                       /\ cT.err = "none"
                       /\ cC.err = "none"
                       /\ cC.val.k = "int"
                    THEN cT.val ELSE EmptyStr
        \* lines 320-328
        capR == Path(d, <<"commentary", "text", "text">>)
        caption_ == IF capR.err = "none" THEN capR.val ELSE EmptyStr
        pR == Path(d, <<"updateMetadata", "urn">>)
        post_urn_ == IF pR.err = "none" THEN pR.val ELSE EmptyStr
        \* lines 330-347
        ts == get_timestamp_from_entity_urn(entity_urn_)
        a == [actor_urn |-> actor_urn_, actor_type |-> actor_type_,
              actor_name |-> actor_name_, dash_entity_urn |-> dash_entity_urn_,
              entity_urn |-> entity_urn_, url |-> url_, caption |-> caption_,
              post_urn |-> post_urn_, is_shared |-> fl.is_shared,
              shared_caption |-> shared_caption_, is_reposted |-> fl.is_reposted,
              is_liked |-> fl.is_liked, is_commented |-> fl.is_commented,
              comment |-> comment_, timestamp |-> ts.ms]
        e == IF actor_type_ = Unbound \/ url_ = Unbound THEN "UnboundLocalError"
             ELSE IF ts.err # "none" THEN ts.err
             ELSE IF ~Validates(a) THEN "ValidationError"
             ELSE "none"
    IN  [loc |-> [actor_type |-> actor_type_, url |-> url_, flags |-> fl],
         exc |-> e,
         act |-> IF e = "none" THEN a ELSE NoActivity]

FreshLocals == [actor_type |-> Unbound, url |-> Unbound, flags |-> AllFalse]

\* lines 250-351 on a whole batch: the list returned, or the exception
RECURSIVE RunFrom(_, _, _)
RunFrom(loc, batch, acc) ==
    IF batch = <<>> THEN [exc |-> "none", list |-> acc]
    ELSE LET r == ProcessRecord(loc, Head(batch))
         IN  IF r.exc # "none" THEN [exc |-> r.exc, list |-> <<>>]
             ELSE RunFrom(r.loc, Tail(batch), Append(acc, r.act))

elements_to_linkedin_activity(batch) == RunFrom(FreshLocals, batch, <<>>)

----------------------------------------------------------------------------
(* Raw records given to elements_to_linkedin_activity *)

With(d, key, v) == Obj([x \in DOMAIN d.f \cup {key} |-> IF x = key THEN v ELSE d.f[x]])
Without(d, key) == Obj([x \in DOMAIN d.f \ {key} |-> d.f[x]])

\* 7123456789012345678, least significant bit first
ExampleId ==
    << 0, 1, 1, 1, 0, 0, 1, 0, 1, 1, 0, 0, 1, 1, 1, 1, 0, 0, 1, 1, 0, 1,
       1, 1, 1, 0, 0, 1, 1, 1, 0, 0, 1, 0, 1, 0, 1, 1, 0, 0, 0, 1, 0, 1,
       1, 0, 0, 1, 1, 1, 0, 1, 1, 0, 1, 1, 0, 1, 0, 0, 0, 1, 1 >>

SmallId == <<1, 0, 1>>

TextObj(v) == Obj([text |-> Obj([text |-> v])])

ActorUrn(kind) == Str(<<Lit("urn:li:"), Lit(kind), Lit(":"), Digits(<<1, 1>>)>>)
Actor(kind, name) == Obj([urn |-> ActorUrn(kind), name |-> Obj([text |-> Text(name)])])

Action(type, link) == Obj([actionType |-> Text(type), url |-> Text(link)])
Metadata(actions) ==
    Obj([urn |-> Text("urn:li:post:1"),
         updateActions |-> Obj([actions |-> List(actions)])])

HeaderText(phrases) == Str(<<Lit("X ")>> \o [i \in 1..Len(phrases) |-> Lit(phrases[i])])

HighlightedComment ==
    Obj([commentV2 |-> Obj([text |-> Text("Nice")]), createdTime |-> IntV(<<1>>)])

\* a comment activity with every key but resharedUpdate
Base ==
    Obj([actor |-> Actor("company", "Acme"),
         dashEntityUrn |-> Text("urn:li:dash:1"),
         entityUrn |-> Str(<<ActivityPrefix, Digits(ExampleId)>>),
         updateMetadata |-> Metadata(<<Action("LIKE", "u0"), Action("SHARE_VIA", "u1"),
                                       Action("SHARE_VIA", "u2")>>),
         header |-> TextObj(HeaderText(<<"commented on this">>)),
         highlightedComments |-> List(<<HighlightedComment>>),
         commentary |-> TextObj(Text("caption"))])

\* a record with all eight top-level keys
Full == With(Base, "resharedUpdate", Obj([commentary |-> TextObj(Text("reshared"))]))

TopKeys == {"actor", "dashEntityUrn", "entityUrn", "updateMetadata", "resharedUpdate",
            "header", "highlightedComments", "commentary"}

ActorShapes ==
    { Null, Obj([name |-> Obj([text |-> Text("Bob")])]),
      Actor("member", "Bob"), Actor("school", "Uni"),
      Obj([urn |-> ActorUrn("company")]), Obj([urn |-> Null, name |-> Null]) }

EntityUrnShapes ==
    { Null, EmptyStr, Str(<<Lit("urn:li:fs_updateV2:(")>>),
      Str(<<Lit("urn:li:fs_updateV2:("), ActivityPrefix, Digits(SmallId), Lit(")")>>) }

MetadataShapes ==
    { Null, Obj([urn |-> Null]), Metadata(<<>>), Metadata(<<Action("LIKE", "u0")>>),
      Metadata(<<Action("SHARE_VIA", "u2")>>),
      Metadata(<<Obj([actionType |-> Text("SHARE_VIA")])>>),
      Obj([urn |-> Text("urn:li:post:2"), updateActions |-> Obj([actions |-> Null])]) }

ResharedShapes ==
    { Null, Obj([commentary |-> Null]), Obj([commentary |-> TextObj(Text("reshared"))]) }

HeaderShapes ==
    { Null, TextObj(Null), TextObj(EmptyStr),
      TextObj(HeaderText(<<"reposted this">>)),
      TextObj(HeaderText(<<"commented on this">>)),
      TextObj(HeaderText(<<"liked this">>)),
      TextObj(HeaderText(<<"commented on this", "reposted this">>)) }

HighlightedShapes ==
    { Null, List(<<>>), List(<<Obj([commentV2 |-> Obj([text |-> Text("Nice")])])>>),
      List(<<Obj([commentV2 |-> Null, createdTime |-> IntV(<<1>>)])>>) }

CommentaryShapes == { Null, TextObj(Null), TextObj(Text("other caption")) }

\* the records that lack exactly one top-level key
LacksOneKey == {Without(Full, key) : key \in TopKeys}

\* every combination of a reshared update and a header, present or not
ClassificationRecords ==
    {With(With(Base, "resharedUpdate", r), "header", h) :
        r \in ResharedShapes, h \in HeaderShapes}
    \cup {With(Without(Base, "header"), "resharedUpdate", r) : r \in ResharedShapes}
    \cup {With(Base, "header", h) : h \in HeaderShapes}
    \cup {Without(Base, "header")}

Records ==
    {Full} \cup LacksOneKey \cup ClassificationRecords
    \cup {With(Base, "actor", v) : v \in ActorShapes}
    \cup {With(Base, "dashEntityUrn", Null)}
    \cup {With(Base, "entityUrn", v) : v \in EntityUrnShapes}
    \cup {With(Base, "updateMetadata", v) : v \in MetadataShapes}
    \cup {With(Base, "highlightedComments", v) : v \in HighlightedShapes}
    \cup {With(Base, "commentary", v) : v \in CommentaryShapes}

\* the records that surround the record under study in a batch: they set
\* each of the locals that survive an iteration to a different value, and
\* one of them has no entityUrn
Neighbours ==
    { Full,
      With(With(With(Base, "actor", Actor("member", "Bob")),
                "updateMetadata", Metadata(<<Action("SHARE_VIA", "u2")>>)),
           "header", TextObj(HeaderText(<<"reposted this">>))),
      Base,
      Without(Full, "entityUrn") }

MaxBatch == 2

\* batches of at most MaxBatch records: any record at one position, neighbours
\* at the others
Batches ==
    {<<>>} \cup
    UNION {
        {[i \in 1..n |-> IF i = p THEN r ELSE c[i]] :
            r \in Records, c \in [1..n -> Neighbours]} :
        n \in 1..MaxBatch, p \in 1..MaxBatch }

----------------------------------------------------------------------------
(* Idle values of the components a specification does not exercise *)

ActivityIdle ==
    /\ data = <<>> /\ idx = 0 /\ actor_type = Unbound /\ url = Unbound
    /\ flags = AllFalse /\ activities_list = <<>> /\ pc = "idle" /\ exc = "none"

DecodeIdle == entity_urn = EmptyStr /\ decoded = Pending

FeedIdle ==
    /\ l_raw_posts = <<>> /\ raw_idx = 0 /\ l_urns = <<>> /\ l_posts = <<>>
    /\ l_posts_sorted_without_promoted = <<>> /\ urn_idx = 0 /\ fpc = "idle"
    /\ fexc = "none" /\ l_posts_in = <<>> /\ selected_by = <<>>

----------------------------------------------------------------------------
(* Spec: elements_to_linkedin_activity *)

Init ==
    /\ data \in Batches
    /\ idx = 0
    /\ actor_type = Unbound
    /\ url = Unbound
    /\ flags = AllFalse
    /\ activities_list = <<>>
    /\ pc = "loop"
    /\ exc = "none"
    /\ DecodeIdle
    /\ FeedIdle

\* lines 252-349: one iteration; an exception leaves the function
ProcessNext ==
    /\ pc = "loop"
    /\ idx < Len(data)
    /\ LET r == ProcessRecord([actor_type |-> actor_type, url |-> url, flags |-> flags],
                              data[idx + 1])
       IN  /\ actor_type' = r.loc.actor_type
           /\ url' = r.loc.url
           /\ flags' = r.loc.flags
           /\ idx' = idx + 1
           /\ IF r.exc = "none"
              THEN /\ activities_list' = Append(activities_list, r.act)
                   /\ pc' = "loop"
                   /\ exc' = "none"
              ELSE /\ activities_list' = activities_list
                   /\ pc' = "raised"
                   /\ exc' = r.exc
    /\ UNCHANGED <<data, decodeVars, feedVars>>

\* line 351
Return ==
    /\ pc = "loop"
    /\ idx = Len(data)
    /\ pc' = "returned"
    /\ UNCHANGED <<data, idx, actor_type, url, flags, activities_list, exc,
                   decodeVars, feedVars>>

Next == ProcessNext \/ Return

Spec == Init /\ [][Next]_vars

\* what the caller of elements_to_linkedin_activity receives
Returned == IF pc = "returned" THEN activities_list ELSE <<>>

----------------------------------------------------------------------------
(* SpecDecode: get_timestamp_from_entity_urn *)

InitDecode ==
    /\ entity_urn \in (UNION {UrnForms(n) : n \in Ids}) \cup UrnsWithoutId
    /\ decoded = Pending
    /\ ActivityIdle
    /\ FeedIdle

\* lines 240-248
Decode ==
    /\ decoded = Pending
    /\ decoded' = get_timestamp_from_entity_urn(entity_urn)
    /\ UNCHANGED <<entity_urn, activityVars, feedVars>>

NextDecode == Decode

SpecDecode == InitDecode /\ [][NextDecode]_vars

----------------------------------------------------------------------------
(* Claims about elements_to_linkedin_activity (Spec) *)

\* the path leads to a string
Readable(d, path) == LET r == Path(d, path) IN r.err = "none" /\ IsStr(r.val)

ResharedPath == <<"resharedUpdate", "commentary", "text", "text">>
HeaderPath == <<"header", "text", "text">>

HeaderHas(d, phrase) == Contains(Path(d, HeaderPath).val.s, <<Lit(phrase)>>)

OnlyFlag(a, name) ==
    /\ a.is_shared = (name = "is_shared")
    /\ a.is_reposted = (name = "is_reposted")
    /\ a.is_commented = (name = "is_commented")
    /\ a.is_liked = (name = "is_liked")

\* the records whose Activity has been appended, by position
Emitted == 1..Len(activities_list)

\* C1: the flags of every emitted Activity follow the priority chain: a
\* readable reshared commentary text gives is_shared alone, whatever the
\* header; otherwise a readable header gives is_reposted alone if it contains
\* "reposted this", else is_commented alone if it contains "commented on
\* this", else is_liked alone.
C1_PriorityChain ==
    \A i \in Emitted :
        LET d == data[i]
            a == activities_list[i]
        IN  /\ Readable(d, ResharedPath) => OnlyFlag(a, "is_shared")
            /\ (~Readable(d, ResharedPath) /\ Readable(d, HeaderPath)) =>
                  IF HeaderHas(d, "reposted this") THEN OnlyFlag(a, "is_reposted")
                  ELSE IF HeaderHas(d, "commented on this") THEN OnlyFlag(a, "is_commented")
                  ELSE OnlyFlag(a, "is_liked")

\* C1 witness: after another record, an Activity was emitted for a record
\* with both a reshared commentary and a "reposted this" header.
C1_Witness ==
    \E i \in Emitted :
        /\ i > 1
        /\ Readable(data[i], ResharedPath)
        /\ Readable(data[i], HeaderPath)
        /\ HeaderHas(data[i], "reposted this")
        /\ activities_list[i].is_shared

FlagCount(a) ==
    (IF a.is_shared THEN 1 ELSE 0) + (IF a.is_reposted THEN 1 ELSE 0)
    + (IF a.is_liked THEN 1 ELSE 0) + (IF a.is_commented THEN 1 ELSE 0)

\* C2: every emitted Activity, at any position, has at most one flag true,
\* and has none exactly when its record has neither a readable reshared
\* commentary text nor a readable header text.
C2_AtMostOneFlag ==
    \A i \in Emitted :
        /\ FlagCount(activities_list[i]) <= 1
        /\ (FlagCount(activities_list[i]) = 0) <=>
              (~Readable(data[i], ResharedPath) /\ ~Readable(data[i], HeaderPath))

\* C2 witness: an Activity without a flag was emitted right after one with a flag.
C2_Witness ==
    \E i \in Emitted :
        /\ i > 1
        /\ FlagCount(activities_list[i]) = 0
        /\ FlagCount(activities_list[i - 1]) = 1

\* the fields an Activity derives from a top-level key hold their defaults
HasDefaults(a, key) ==
    CASE key = "actor" ->
            a.actor_urn = EmptyStr /\ a.actor_name = EmptyStr /\ a.actor_type = EmptyStr
      [] key = "dashEntityUrn" -> a.dash_entity_urn = EmptyStr
      [] key = "entityUrn" -> a.entity_urn = EmptyStr
      [] key = "updateMetadata" -> a.url = EmptyStr /\ a.post_urn = EmptyStr
      [] key = "resharedUpdate" -> ~a.is_shared /\ a.shared_caption = EmptyStr
      [] key = "header" -> ~a.is_reposted /\ ~a.is_liked /\ ~a.is_commented
      [] key = "highlightedComments" -> a.comment = EmptyStr
      [] OTHER -> a.caption = EmptyStr

\* C3: a record that lacks one entire top-level key, at any position of the
\* batch, does not raise and yields an Activity whose fields derived from
\* that key hold their defaults.
C3_MissingKeyDefaults ==
    \A i \in 1..idx : \A key \in TopKeys :
        data[i] = Without(Full, key) =>
            /\ i \in Emitted
            /\ HasDefaults(activities_list[i], key)

BadEntityUrn(d) ==
    LET r == Subscript(d, "entityUrn")
    IN  r.err # "none" \/ ~IsStr(r.val) \/ ~ReSearch(r.val.s).found

\* C4: once the call has ended on a batch made of complete records and
\* records without a usable entityUrn, the Activity of every complete record
\* is in the list the caller receives.
C4_FailureIsolated ==
    (/\ pc \in {"returned", "raised"}
     /\ \A i \in 1..Len(data) : data[i] = Full \/ BadEntityUrn(data[i]))
    => \A i \in 1..Len(data) :
          data[i] = Full =>
              \E j \in 1..Len(Returned) :
                  Returned[j] = elements_to_linkedin_activity(<<Full>>).list[1]

\* C5: the Activity emitted for a record equals the Activity emitted for the
\* same record in any two-record batch where another record precedes it.
C5_RecordAlone ==
    \A i \in Emitted : \A x \in Neighbours :
        LET other == elements_to_linkedin_activity(<<x, data[i]>>)
        IN  other.exc = "none" => other.list[2] = activities_list[i]

----------------------------------------------------------------------------
(* Claims about get_timestamp_from_entity_urn (SpecDecode) *)

\* floor(n / 2^k), by k halvings
RECURSIVE ShiftRight(_, _)
ShiftRight(n, k) == IF k = 0 \/ n = <<>> THEN n ELSE ShiftRight(Tail(n), k - 1)

BitLength(n) == Len(n)

Leading41(n) == IF BitLength(n) > 41 THEN ShiftRight(n, BitLength(n) - 41) ELSE n

\* C6: for every id embedded as urn:li:activity:<id> the decoder succeeds and
\* the millisecond count is floor(id / 2^(L-41)) when the bit length L of id
\* exceeds 41, and id itself otherwise.
C6_Leading41Bits ==
    \A n \in Ids :
        (decoded # Pending /\ entity_urn \in UrnForms(n)) =>
            /\ decoded.err = "none"
            /\ decoded.ms = Leading41(n)

\* C6 witness: an id longer than 41 bits was decoded to a value other than itself.
C6_Witness ==
    \E n \in Ids :
        /\ BitLength(n) > 41
        /\ entity_urn \in UrnForms(n)
        /\ decoded.err = "none"
        /\ decoded.ms # n
        /\ decoded.ms # <<>>

----------------------------------------------------------------------------
(* Field extractors of the feed (lines 15-129) *)

BaseUrl == <<Lit("https://www.linkedin.com")>>

Truthy(v) == IsStr(v) /\ v.s # <<>>

\* "{v}" in an f-string
Format(v) == IF IsStr(v) THEN v.s ELSE <<Lit("None")>>

\* index of the first token c in s at or after position i, 0 if none
RECURSIVE IndexFrom(_, _, _)
IndexFrom(s, c, i) ==
    IF i > Len(s) THEN 0 ELSE IF s[i] = Lit(c) THEN i ELSE IndexFrom(s, c, i + 1)

\* index of the last token c in s, 0 if none
RECURSIVE LastIndex(_, _, _)
LastIndex(s, c, i) ==
    IF i = 0 THEN 0 ELSE IF s[i] = Lit(c) THEN i ELSE LastIndex(s, c, i - 1)

\* raw_string.split("(")[1].split(",")[0]
get_urn_from_raw_update(raw_string) ==
    IF ~IsStr(raw_string) THEN [exc |-> "AttributeError", val |-> Null]
    ELSE LET s == raw_string.s
             open == IndexFrom(s, "(", 1)
         IN  IF open = 0 THEN [exc |-> "IndexError", val |-> Null]
             ELSE LET next == IndexFrom(s, "(", open + 1)
                      part == SubSeq(s, open + 1, IF next = 0 THEN Len(s) ELSE next - 1)
                      comma == IndexFrom(part, ",", 1)
                  IN  [exc |-> "none",
                       val |-> Str(IF comma = 0 THEN part ELSE SubSeq(part, 1, comma - 1))]

\* try: return d[...]; except KeyError: return ""; except TypeError: return "None"
TryPath(d_included, path) ==
    LET r == Path(d_included, path)
    IN  CASE r.err = "none" -> r.val
          [] r.err = "KeyError" -> EmptyStr
          [] OTHER -> Text("None")

get_update_author_name(d_included) == TryPath(d_included, <<"actor", "name", "text">>)

get_update_old(d_included) == TryPath(d_included, <<"actor", "subDescription", "text">>)

get_update_content(d_included, base_url) ==
    LET r == Path(d_included, <<"commentary", "text", "text">>)
    IN  CASE r.err = "none" -> [exc |-> "none", val |-> r.val]
          [] r.err = "KeyError" -> [exc |-> "none", val |-> EmptyStr]
          [] OTHER ->
                LET q == Subscript(d_included, "*resharedUpdate")
                IN  CASE q.err = "KeyError" -> [exc |-> "none", val |-> Text("IMAGE")]
                      [] q.err = "TypeError" -> [exc |-> "none", val |-> Text("None")]
                      [] OTHER ->
                            LET u == get_urn_from_raw_update(q.val)
                            IN  IF u.exc # "none" THEN u
                                ELSE [exc |-> "none",
                                      val |-> Str(base_url \o <<Lit("/feed/update/")>> \o u.val.s)]

get_update_author_profile(d_included, base_url) ==
    LET r == Path(d_included, <<"actor", "urn">>)
    IN  CASE r.err = "KeyError" -> [exc |-> "none", val |-> EmptyStr]
          [] r.err = "TypeError" -> [exc |-> "none", val |-> Text("None")]
          [] OTHER ->
                \* else: urn.split(":")[-1] is outside the try
                IF ~IsStr(r.val) THEN [exc |-> "AttributeError", val |-> Null]
                ELSE LET urn == r.val.s
                         urn_id == SubSeq(urn, LastIndex(urn, ":", Len(urn)) + 1, Len(urn))
                     IN  IF Contains(urn, <<Lit("company")>>)
                         THEN [exc |-> "none", val |-> Str(base_url \o <<Lit("/company/")>> \o urn_id)]
                         ELSE IF Contains(urn, <<Lit("member")>>)
                         THEN [exc |-> "none", val |-> Str(base_url \o <<Lit("/in/")>> \o urn_id)]
                         ELSE [exc |-> "none", val |-> Null]

get_update_url(d_included, base_url) ==
    LET r == Path(d_included, <<"updateMetadata", "urn">>)
    IN  CASE r.err = "none" -> Str(base_url \o <<Lit("/feed/update/")>> \o Format(r.val))
          [] r.err = "KeyError" -> EmptyStr
          [] OTHER -> Text("None")

\* lines 148-157
append_update_post_field_to_posts_list(posts, post_key, post_value) ==
    IF posts = <<>> THEN <<Obj([x \in {post_key} |-> post_value])>>
    ELSE IF post_key \notin DOMAIN posts[Len(posts)].f
         THEN [posts EXCEPT ![Len(posts)] = With(@, post_key, post_value)]
         ELSE Append(posts, Obj([x \in {post_key} |-> post_value]))

AddIfTruthy(posts, post_key, post_value) ==
    IF Truthy(post_value)
    THEN append_update_post_field_to_posts_list(posts, post_key, post_value)
    ELSE posts

\* lines 189-213: the body of the loop of parse_list_raw_posts for record i
ParseRecord(posts, i, linkedin_base_url) ==
    LET p1 == AddIfTruthy(posts, "author_name", get_update_author_name(i))
        prof == get_update_author_profile(i, linkedin_base_url)
        p2 == AddIfTruthy(p1, "author_profile", prof.val)
        p3 == AddIfTruthy(p2, "old", get_update_old(i))
        cont == get_update_content(i, linkedin_base_url)
        p4 == AddIfTruthy(p3, "content", cont.val)
        p5 == AddIfTruthy(p4, "url", get_update_url(i, linkedin_base_url))
    IN  IF prof.exc # "none" THEN [exc |-> prof.exc, posts |-> posts]
        ELSE IF cont.exc # "none" THEN [exc |-> cont.exc, posts |-> posts]
        ELSE [exc |-> "none", posts |-> p5]

\* lines 187-215
RECURSIVE ParseFrom(_, _, _)
ParseFrom(posts, raw, linkedin_base_url) ==
    IF raw = <<>> THEN [exc |-> "none", posts |-> posts]
    ELSE LET r == ParseRecord(posts, Head(raw), linkedin_base_url)
         IN  IF r.exc # "none" THEN r ELSE ParseFrom(r.posts, Tail(raw), linkedin_base_url)

parse_list_raw_posts(raw, linkedin_base_url) == ParseFrom(<<>>, raw, linkedin_base_url)

----------------------------------------------------------------------------
(* get_list_posts_sorted_without_promoted (lines 218-238) *)

\* d.get(key)
DictGet(d, key) == IF key \in DOMAIN d.f THEN d.f[key] ELSE Null

\* the marker compared in lower case, which no age string contains
WithoutPromotedLowerCase(posts) ==
    IF \E n \in 1..Len(posts) : ~IsStr(DictGet(posts[n], "old"))
    THEN [exc |-> "TypeError", posts |-> posts]
    ELSE [exc |-> "none",
          posts |-> SelectSeq(posts, LAMBDA d : ~Contains(d.f.old.s, <<Lit("promoted")>>))]

\* line 231; `in` raises TypeError on the None of a missing key
WithoutPromoted(posts) ==
    IF \E n \in 1..Len(posts) : ~IsStr(DictGet(posts[n], "old"))
    THEN [exc |-> "TypeError", posts |-> posts]
    ELSE [exc |-> "none",
          posts |-> SelectSeq(posts, LAMBDA d : ~Contains(d.f.old.s, <<Lit("Promoted")>>))]

\* lines 233-234: the first post whose url contains urn; post["url"] raises
\* KeyError on the way
RECURSIVE ScanPosts(_, _, _)
ScanPosts(urn, posts, n) ==
    IF n > Len(posts) THEN [exc |-> "none", at |-> 0]
    ELSE LET u == Subscript(posts[n], "url")
         IN  IF u.err # "none" THEN [exc |-> u.err, at |-> 0]
             ELSE IF ~IsStr(u.val) THEN [exc |-> "TypeError", at |-> 0]
             ELSE IF Contains(u.val.s, urn) THEN [exc |-> "none", at |-> n]
             ELSE ScanPosts(urn, posts, n + 1)

\* line 236
WithoutUrn(urn, posts) ==
    IF \E n \in 1..Len(posts) : ~IsStr(DictGet(posts[n], "url"))
    THEN [exc |-> "TypeError", posts |-> posts]
    ELSE [exc |-> "none", posts |-> SelectSeq(posts, LAMBDA d : ~Contains(d.f.url.s, urn))]

\* lines 233-237: one iteration of the outer loop
SortIteration(urn, posts, sorted) ==
    LET m == ScanPosts(urn, posts, 1)
    IN  IF m.exc # "none" THEN [exc |-> m.exc, posts |-> posts, sorted |-> sorted, hit |-> FALSE]
        ELSE IF m.at = 0 THEN [exc |-> "none", posts |-> posts, sorted |-> sorted, hit |-> FALSE]
        ELSE LET w == WithoutUrn(urn, posts)
             IN  [exc |-> w.exc, posts |-> w.posts,
                  sorted |-> Append(sorted, posts[m.at]), hit |-> TRUE]

----------------------------------------------------------------------------
(* Inputs of the feed *)

UrnA == <<ActivityPrefix, Lit("1")>>
UrnB == <<ActivityPrefix, Lit("1"), Lit("2")>>
UrnC == <<ActivityPrefix, Lit("2")>>

FeedUrns == {UrnA, UrnB, UrnC}

Olds == {<<Lit("2 mo")>>, <<Lit("Promoted"), Lit(" by Acme")>>}

MaxUrns == 3
MaxPosts == 3
MaxRaw == 2

\* the n-th mapping of a working list: its author name tells it from the others
MkPost(n, urn, old) ==
    Obj([author_name |-> Str([j \in 1..n |-> Lit("a")]),
         old |-> Str(old),
         url |-> Str(BaseUrl \o <<Lit("/feed/update/")>> \o urn)])

UrnLists == UNION {[1..n -> FeedUrns] : n \in 0..MaxUrns}

PostLists ==
    UNION { {[i \in 1..n |-> MkPost(i, c[i][1], c[i][2])] : c \in [1..n -> FeedUrns \X Olds]} :
            n \in 0..MaxPosts }

MemberUrn == Str(<<Lit("urn"), Lit(":"), Lit("li"), Lit(":"), Lit("member"), Lit(":"), Lit("7")>>)

FeedActor(old) ==
    Obj([name |-> Obj([text |-> Text("Ann")]),
         subDescription |-> Obj([text |-> Str(old)]),
         urn |-> MemberUrn])

FeedRaw(urn, old) ==
    Obj([actor |-> FeedActor(old),
         commentary |-> TextObj(Text("hello")),
         updateMetadata |-> Obj([urn |-> Str(urn)])])

RawA == FeedRaw(UrnA, <<Lit("2 mo")>>)

RawUpdate ==
    Str(<<Lit("urn:li:fs_updateV2:"), Lit("(")>> \o UrnC \o <<Lit(","), Lit("FEED_DETAIL"), Lit(")")>>)

RawPosts ==
    { RawA,
      FeedRaw(UrnB, <<Lit("2 mo")>>),
      FeedRaw(UrnC, <<Lit("Promoted"), Lit(" by Acme")>>),
      With(RawA, "actor", Null),
      Without(RawA, "actor"),
      With(RawA, "actor", Obj([name |-> Obj([text |-> Text("Ann")]), urn |-> MemberUrn])),
      With(RawA, "actor", Obj([name |-> Null, subDescription |-> Null, urn |-> Null])),
      With(RawA, "updateMetadata", Null),
      Without(RawA, "updateMetadata"),
      With(RawA, "commentary", Null),
      Without(RawA, "commentary"),
      With(With(RawA, "commentary", Null), "*resharedUpdate", RawUpdate) }

RawLists == UNION {[1..n -> RawPosts] : n \in 0..MaxRaw}

----------------------------------------------------------------------------
(* SpecFeed and SpecParse *)

InitFeed ==
    /\ l_raw_posts = <<>>
    /\ raw_idx = 0
    /\ l_urns \in UrnLists
    /\ l_posts \in PostLists
    /\ l_posts_sorted_without_promoted = <<>>
    /\ urn_idx = 0
    /\ fpc = "filter"
    /\ fexc = "none"
    /\ l_posts_in = l_posts
    /\ selected_by = <<>>
    /\ ActivityIdle
    /\ DecodeIdle

InitParse ==
    /\ l_raw_posts \in RawLists
    /\ raw_idx = 0
    /\ l_urns \in UrnLists
    /\ l_posts = <<>>
    /\ l_posts_sorted_without_promoted = <<>>
    /\ urn_idx = 0
    /\ fpc = "parse"
    /\ fexc = "none"
    /\ l_posts_in = <<>>
    /\ selected_by = <<>>
    /\ ActivityIdle
    /\ DecodeIdle

\* lines 188-213: one iteration of parse_list_raw_posts
ParseStep ==
    /\ fpc = "parse"
    /\ raw_idx < Len(l_raw_posts)
    /\ LET r == ParseRecord(l_posts, l_raw_posts[raw_idx + 1], BaseUrl)
       IN  /\ l_posts' = r.posts
           /\ fexc' = r.exc
           /\ fpc' = IF r.exc = "none" THEN "parse" ELSE "parse_raised"
    /\ raw_idx' = raw_idx + 1
    /\ UNCHANGED <<l_raw_posts, l_urns, l_posts_sorted_without_promoted, urn_idx,
                   l_posts_in, selected_by, activityVars, decodeVars>>

\* line 215, and the list is passed to get_list_posts_sorted_without_promoted
ParseReturn ==
    /\ fpc = "parse"
    /\ raw_idx = Len(l_raw_posts)
    /\ fpc' = "filter"
    /\ l_posts_in' = l_posts
    /\ UNCHANGED <<l_raw_posts, raw_idx, l_urns, l_posts, l_posts_sorted_without_promoted,
                   urn_idx, fexc, selected_by, activityVars, decodeVars>>

\* lines 230-231
Filter ==
    /\ fpc = "filter"
    /\ LET r == WithoutPromoted(l_posts)
       IN  /\ l_posts' = r.posts
           /\ fexc' = r.exc
           /\ fpc' = IF r.exc = "none" THEN "sort" ELSE "raised"
    /\ UNCHANGED <<l_raw_posts, raw_idx, l_urns, l_posts_sorted_without_promoted, urn_idx,
                   l_posts_in, selected_by, activityVars, decodeVars>>

\* lines 232-237: one iteration of the outer loop
SortStep ==
    /\ fpc = "sort"
    /\ urn_idx < Len(l_urns)
    /\ LET r == SortIteration(l_urns[urn_idx + 1], l_posts, l_posts_sorted_without_promoted)
       IN  /\ l_posts' = r.posts
           /\ l_posts_sorted_without_promoted' = r.sorted
           /\ selected_by' = IF r.hit THEN Append(selected_by, urn_idx + 1) ELSE selected_by
           /\ fexc' = r.exc
           /\ fpc' = IF r.exc = "none" THEN "sort" ELSE "raised"
    /\ urn_idx' = urn_idx + 1
    /\ UNCHANGED <<l_raw_posts, raw_idx, l_urns, l_posts_in, activityVars, decodeVars>>

\* line 238
SortReturn ==
    /\ fpc = "sort"
    /\ urn_idx = Len(l_urns)
    /\ fpc' = "returned"
    /\ UNCHANGED <<l_raw_posts, raw_idx, l_urns, l_posts, l_posts_sorted_without_promoted,
                   urn_idx, fexc, l_posts_in, selected_by, activityVars, decodeVars>>

NextFeed == Filter \/ SortStep \/ SortReturn

SpecFeed == InitFeed /\ [][NextFeed]_vars

NextParse == ParseStep \/ ParseReturn \/ Filter \/ SortStep \/ SortReturn

SpecParse == InitParse /\ [][NextParse]_vars

----------------------------------------------------------------------------
(* Claims about get_list_posts_sorted_without_promoted (SpecFeed, SpecParse) *)

IsPromoted(post) == Contains(DictGet(post, "old").s, <<Lit("Promoted")>>)

UrlHas(post, urn) == LET u == DictGet(post, "url") IN IsStr(u) /\ Contains(u.s, urn)

\* the position in l_urns of the first urn that the url of post contains
FirstUrnIn(post) ==
    CHOOSE i \in 1..Len(l_urns) :
        UrlHas(post, l_urns[i]) /\ \A j \in 1..(i - 1) : ~UrlHas(post, l_urns[j])

Occurrences(seq, x) == Cardinality({n \in 1..Len(seq) : seq[n] = x})

\* C7: when every mapping has an age and a url, no output mapping has an age
\* containing "Promoted", every output mapping was selected by the first urn
\* of the ordering list that its url contains, and the output entries appear
\* in the order of the urns that selected them.
C7_OrderedWithoutPromoted ==
    LET out == l_posts_sorted_without_promoted
    IN  /\ fpc # "raised"
        /\ \A p \in 1..Len(out) :
              /\ ~IsPromoted(out[p])
              /\ UrlHas(out[p], l_urns[selected_by[p]])
              /\ selected_by[p] = FirstUrnIn(out[p])
        /\ \A p, q \in 1..Len(out) :
              p < q => /\ selected_by[p] < selected_by[q]
                       /\ FirstUrnIn(out[p]) < FirstUrnIn(out[q])

\* C7 witness: the sort returned two mappings in the reverse of their input
\* order, from an input holding a promoted mapping whose url contains a urn
\* of the ordering list.
C7_Witness ==
    LET out == l_posts_sorted_without_promoted
    IN  /\ fpc = "returned"
        /\ Len(out) >= 2
        /\ \E m, n \in 1..Len(l_posts_in) :
              m < n /\ l_posts_in[n] = out[1] /\ l_posts_in[m] = out[2]
        /\ \E n \in 1..Len(l_posts_in) : \E i \in 1..Len(l_urns) :
              IsPromoted(l_posts_in[n]) /\ UrlHas(l_posts_in[n], l_urns[i])

\* C10: after every step of the sort, each non-promoted input mapping is in
\* exactly one of the output and the working list.
C10_NothingLost ==
    fpc \in {"sort", "returned"} =>
        \A n \in 1..Len(l_posts_in) :
            ~IsPromoted(l_posts_in[n]) =>
                Occurrences(l_posts_sorted_without_promoted, l_posts_in[n])
                + Occurrences(l_posts, l_posts_in[n]) = 1

\* the urns consumed so far that the url of some input mapping contains
MatchedUrns ==
    {i \in 1..urn_idx : \E n \in 1..Len(l_posts_in) : UrlHas(l_posts_in[n], l_urns[i])}

\* C8: on every list that parse_list_raw_posts produces the sort does not
\* raise, and only urns that the url of some mapping contains add an entry
\* to the output.
C8_SortNeverRaises ==
    /\ fpc # "raised"
    /\ \A p \in 1..Len(selected_by) : selected_by[p] \in MatchedUrns

\* the record with every null-valued key removed
RECURSIVE DropNulls(_)
DropNulls(v) ==
    IF v.k = "obj"
    THEN Obj([x \in {y \in DOMAIN v.f : v.f[y] # Null} |-> DropNulls(v.f[x])])
    ELSE v

\* C9: for every raw record parsed, each extractor returns for the record
\* what it returns for the record with its null-valued keys removed, and the
\* accumulator handed to the sort is the one those records produce.
C9_NullLikeAbsent ==
    /\ \A n \in 1..raw_idx :
          LET d == l_raw_posts[n]
              a == DropNulls(d)
          IN  /\ get_update_author_name(d) = get_update_author_name(a)
              /\ get_update_old(d) = get_update_old(a)
              /\ get_update_author_profile(d, BaseUrl) = get_update_author_profile(a, BaseUrl)
              /\ get_update_url(d, BaseUrl) = get_update_url(a, BaseUrl)
    /\ (fpc \notin {"parse", "parse_raised"}) =>
          l_posts_in = parse_list_raw_posts([n \in 1..Len(l_raw_posts) |->
                                                DropNulls(l_raw_posts[n])], BaseUrl).posts

====
